---- MODULE Spec2Model ----
(***************************************************************************)
(* Challenge engine of the fintech backend: the challenge store, the       *)
(* transaction feed, the points ledger and the two evaluation paths        *)
(* (checkProgress, the batch scan, and updateChallengesWithNewData, the    *)
(* per-transaction path) of ChallengesService, as a state machine whose    *)
(* steps are the database operations the async methods await.              *)
(***************************************************************************)
EXTENDS Integers, Sequences, FiniteSets, TLC

VARIABLES
    challenges,     \* the 'challenges' collection: challenge id = position
    transactions,   \* the 'transactions' collection, in insertion order
    goals,          \* the 'savings_goals' collection: goal id -> record
    now,            \* the wall clock (new Date()), in ticks
    points,         \* 'user_points': user -> points balance
    awards,         \* addPoints invocations per challenge id (metadata.challengeId)
    proc,           \* the async invocations in flight: their position and locals
    sweeps,         \* runs of updateChallengesWithNewData started by the weekly sweep
    everExpired,    \* history: the challenge ids ever stored with status EXPIRED
    ledger          \* the totals of 'user_points' and the 'points_transactions' log

vars == <<challenges, transactions, goals, now, points, awards, proc, sweeps,
          everExpired, ledger>>

----------------------------------------------------------------------------
(* Bounds of the model *)

MaxCh == 4          \* challenge records the store may hold
MaxTx == 2          \* transactions the feed may hold
MaxTime == 3        \* last clock tick
MaxSweeps == 1      \* weekly-sweep runs
MaxAwards == 2      \* rewards of one challenge after which PATCH requests stop
MaxPosted == 2      \* challenges created through POST /challenges
MaxLog == 3         \* records the points_transactions log may hold

(* Program constants *)

Day == 2            \* length of a day on the clock (1000 * 60 * 60 * 24 ms)
TargetActive == 3   \* "Si hay menos de 3 challenges activos, generar nuevos"
WeekDays == 7       \* validity of a fallback challenge, in days

Users == {"u1", "u2"}
Procs == {"p1", "p2"}
GoalIds == {"g1"}

NoVal == -1                 \* an absent (undefined) number
NoCat == "undefined"        \* an absent rules.category
NoGoal == "undefined"       \* an absent rules.goalId

\* ChallengeType
SAVINGS == "savings"
SPENDING_LIMIT == "spending_limit"
CATEGORY_BAN == "category_ban"
STREAK == "streak"
GOAL_CONTRIBUTION == "goal_contribution"
INCOME_PERCENTAGE == "income_percentage"
ChallengeType ==
    {SAVINGS, SPENDING_LIMIT, CATEGORY_BAN, STREAK, GOAL_CONTRIBUTION, INCOME_PERCENTAGE}

\* ChallengeStatus
ACTIVE == "active"
COMPLETED == "completed"
FAILED == "failed"
EXPIRED == "expired"
Terminal == {COMPLETED, FAILED, EXPIRED}

----------------------------------------------------------------------------
(* Pure helpers *)

\* x || 0
Or0(x) == IF x = NoVal THEN 0 ELSE x

Abs(x) == IF x < 0 THEN -x ELSE x

RECURSIVE SumAmount(_)
\* .reduce((sum, t) => sum + t.amount, 0)
SumAmount(s) == IF s = <<>> THEN 0 ELSE Head(s).amount + SumAmount(Tail(s))

\* Math.floor(Math.abs(now - startDate) / one day)
calculateStreakDays(startDate, t) == Abs(t - startDate) \div Day

\* The progress calculateProgress returns for challenge object ch (progress
\* fields amt, streak), transactions txs and goals gs, at clock t.
calculateProgress(ch, txs, gs, t) ==
    LET relevant == SelectSeq(txs, LAMBDA x : x.createdAt >= ch.startDate)
        income == SelectSeq(relevant, LAMBDA x : x.type = "income")
        expense == SelectSeq(relevant, LAMBDA x : x.type = "expense")
        categorySpending ==
            SelectSeq(relevant,
                      LAMBDA x : x.type = "expense" /\ x.category = ch.category)
        prog == [amt |-> ch.amt, streak |-> ch.streak]
    IN  CASE ch.type = SAVINGS -> [prog EXCEPT !.amt = SumAmount(income)]
          [] ch.type = SPENDING_LIMIT -> [prog EXCEPT !.amt = SumAmount(expense)]
          [] ch.type \in {CATEGORY_BAN, STREAK} ->
                [prog EXCEPT !.streak =
                    IF Len(categorySpending) = 0
                    THEN calculateStreakDays(ch.startDate, t) ELSE 0]
          [] ch.type = GOAL_CONTRIBUTION ->
                IF ch.goalId \in DOMAIN gs /\ gs[ch.goalId].userId = ch.userId
                THEN [prog EXCEPT !.amt = gs[ch.goalId].currentAmount]
                ELSE prog
          [] ch.type = INCOME_PERCENTAGE -> [prog EXCEPT !.amt = SumAmount(income)]
          [] OTHER -> prog

isChallengeCompleted(ch, prog, t) ==
    CASE ch.type \in {SAVINGS, GOAL_CONTRIBUTION, INCOME_PERCENTAGE} ->
            Or0(prog.amt) >= Or0(ch.target)
      [] ch.type = SPENDING_LIMIT ->
            t >= ch.endDate /\ Or0(prog.amt) <= Or0(ch.target)
      [] ch.type \in {CATEGORY_BAN, STREAK} ->
            Or0(prog.streak) >= Or0(ch.streakDays)
      [] OTHER -> FALSE

isChallengeFailed(ch, prog, t) ==
    IF t >= ch.endDate
    THEN ~isChallengeCompleted(ch, prog, t)
    ELSE CASE ch.type = SPENDING_LIMIT -> Or0(prog.amt) > Or0(ch.target)
           [] ch.type = CATEGORY_BAN -> Or0(prog.streak) = 0 /\ t > ch.startDate
           [] OTHER -> FALSE

----------------------------------------------------------------------------
(* The challenge store *)

ChIds == 1..Len(challenges)

\* A challenge object as db.find / db.findOne hands it out: the stored
\* record at that moment. db.update replaces the stored record by a new
\* object, so an object handed out earlier keeps the status and progress it
\* was read with. Only those fields ever change, so a snapshot keeps them.
Snapshot(id) ==
    [id |-> id, status |-> challenges[id].status,
     amt |-> challenges[id].amt, streak |-> challenges[id].streak]

\* The challenge object of snapshot s: the fields that never change come from
\* the store, status and progress are the ones read with the snapshot.
Obj(s) ==
    [challenges[s.id] EXCEPT !.status = s.status, !.amt = s.amt, !.streak = s.streak]

RECURSIVE FindFrom(_, _, _)
FindFrom(u, st, i) ==
    IF i > Len(challenges) THEN <<>>
    ELSE IF challenges[i].userId = u /\ challenges[i].status = st
         THEN <<Snapshot(i)>> \o FindFrom(u, st, i + 1)
         ELSE FindFrom(u, st, i + 1)

\* A find that drops the userId filter
FindActiveOfAnyone(u) == FindFrom("u1", ACTIVE, 1) \o FindFrom("u2", ACTIVE, 1)

\* db.find('challenges', { userId, status: ACTIVE }), in insertion order
FindActive(u) == FindFrom(u, ACTIVE, 1)

\* db.find('transactions', { userId })
FindTransactions(u) == SelectSeq(transactions, LAMBDA x : x.userId = u)

\* ChallengesService.updateChallenge(id, { status }): the stored record with
\* the status replaced
SetStatus(store, id, st) == [store EXCEPT ![id].status = st]

\* ChallengesService.updateChallenge(id, { progress }) and
\* updateChallenge(id, { status, progress })
SetProgress(store, id, prog) ==
    [store EXCEPT ![id].amt = prog.amt, ![id].streak = prog.streak]

\* A faulty write of { status, progress } that loses the status
SetStatusProgressLosingStatus(store, id, st, prog) == SetProgress(store, id, prog)

SetStatusProgress(store, id, st, prog) ==
    SetProgress(SetStatus(store, id, st), id, prog)

\* A faulty creation that stores the record of draft d as EXPIRED
NewChallengeExpired(u, d, ai) ==
    [userId |-> u, type |-> d.type, status |-> EXPIRED,
     target |-> d.target, category |-> d.category, streakDays |-> d.streakDays,
     goalId |-> d.goalId, rewardPoints |-> d.rewardPoints,
     startDate |-> d.startDate, endDate |-> d.endDate,
     amt |-> 0, streak |-> 0, aiGenerated |-> ai]

\* A new ACTIVE challenge record of user u from draft d
NewChallenge(u, d, ai) ==
    [userId |-> u, type |-> d.type, status |-> ACTIVE,
     target |-> d.target, category |-> d.category, streakDays |-> d.streakDays,
     goalId |-> d.goalId, rewardPoints |-> d.rewardPoints,
     startDate |-> d.startDate, endDate |-> d.endDate,
     amt |-> 0, streak |-> 0, aiGenerated |-> ai]

\* A draft with the given fields (CreateChallengeDto)
Draft(type, target, category, streakDays, goalId, reward, startDate, endDate) ==
    [type |-> type, target |-> target, category |-> category,
     streakDays |-> streakDays, goalId |-> goalId, rewardPoints |-> reward,
     startDate |-> startDate, endDate |-> endDate]

----------------------------------------------------------------------------
(* The per-transaction path *)

\* What updateChallengeProgressWithTransaction computes for challenge object
\* ch and transaction tx before it touches the ledger or the store: the
\* status and progress it will write, and its two flags.
updateChallengeProgressWithTransaction(ch, tx) ==
    LET keep == [status |-> ch.status, amt |-> ch.amt, streak |-> ch.streak,
                 shouldUpdate |-> FALSE, shouldComplete |-> FALSE]
        added == Or0(ch.amt) + Abs(tx.amount)
        reached == added >= Or0(ch.target)
        sums == [keep EXCEPT !.amt = added, !.shouldUpdate = TRUE,
                             !.shouldComplete = reached,
                             !.status = IF reached THEN COMPLETED ELSE ch.status]
    IN  CASE ch.type = SAVINGS ->
                IF tx.type = "income" THEN sums ELSE keep
          [] ch.type = SPENDING_LIMIT ->
                IF tx.type = "expense"
                   /\ (ch.category = NoCat \/ tx.category = ch.category)
                THEN [keep EXCEPT !.amt = added, !.shouldUpdate = TRUE,
                                  !.status = IF added > Or0(ch.target)
                                             THEN FAILED ELSE ch.status]
                ELSE keep
          [] ch.type = CATEGORY_BAN ->
                IF tx.type = "expense" /\ tx.category = ch.category
                THEN [keep EXCEPT !.status = FAILED, !.shouldUpdate = TRUE]
                ELSE keep
          [] ch.type = GOAL_CONTRIBUTION ->
                IF tx.type = "income" /\ tx.ahorro THEN sums ELSE keep
          [] ch.type = STREAK ->
                IF tx.type = "expense" /\ tx.category = ch.category
                THEN [keep EXCEPT !.status = FAILED, !.amt = NoVal, !.streak = 0,
                                  !.shouldUpdate = TRUE]
                ELSE keep
          [] OTHER -> keep

RECURSIVE LatestFrom(_, _)
\* The head of the transactions sorted by createdAt, newest first; the sort is
\* stable, so among equal dates the one inserted first stays first.
LatestFrom(s, best) ==
    IF s = <<>> THEN best
    ELSE LatestFrom(Tail(s),
                    IF Head(s).createdAt > best.createdAt THEN Head(s) ELSE best)

latestTransaction(s) == LatestFrom(Tail(s), Head(s))

----------------------------------------------------------------------------
(* The challenge generator *)

\* generateFallbackChallenges at clock t: the three fixed templates
generateFallbackChallenges(t) ==
    << Draft(SPENDING_LIMIT, 500, NoCat, NoVal, NoGoal, 50, t, t + WeekDays * Day),
       Draft(SAVINGS, 200, NoCat, NoVal, NoGoal, 75, t, t + WeekDays * Day),
       Draft(CATEGORY_BAN, NoVal, "delivery", 7, NoGoal, 100, t, t + WeekDays * Day) >>

RECURSIVE MapItems(_)
\* challenges.map(c => ({ type: c.type as ChallengeType, ...,
\*                        rewardPoints: c.rewardPoints || 50, ... }))
MapItems(items) ==
    IF items = <<>> THEN <<>>
    ELSE <<[Head(items) EXCEPT !.rewardPoints =
                IF @ \in {0, NoVal} THEN 50 ELSE @]>> \o MapItems(Tail(items))

\* parseAIChallenges: resp.hasArray says whether /\[[\s\S]*\]/ matches the
\* text, resp.parses whether JSON.parse accepts the match, resp.items is the
\* parsed array.
parseAIChallenges(resp, t) ==
    IF resp.hasArray /\ resp.parses
    THEN MapItems(resp.items)
    ELSE generateFallbackChallenges(t)

----------------------------------------------------------------------------
(* The invocations in flight *)

\* The response slot of an invocation that computed no statistics
NoStats == [total |-> 0, active |-> 0, completed |-> 0, failed |-> 0, expired |-> 0,
            totalPointsEarned |-> 0, successRate |-> [num |-> 0, den |-> 1]]

\* The userPoints local of an invocation that read none
NoUserPoints == [points |-> 0, totalEarned |-> 0, totalSpent |-> 0]

\* userPoints, n: the record addPoints / subtractPoints read, and the points
\* they were called with;
\* queue, successCount, errorCount: the users the weekly sweep has still to
\* visit and its two counters; ran: the users it ran a pass for, in order;
\* err: the invocation ended with an error that its caller caught;
\* by: what started the invocation (a transaction, the weekly sweep, a request)
IdleProc ==
    [pc |-> "idle", user |-> "u1", ret |-> "idle", list |-> <<>>, idx |-> 0,
     gnow |-> 0, txs |-> <<>>, gl |-> <<>>, drafts |-> <<>>, err |-> FALSE,
     by |-> "none", stats |-> NoStats,
     queue |-> <<>>, successCount |-> 0, errorCount |-> 0, ran |-> <<>>,
     userPoints |-> NoUserPoints, n |-> 0]

Idle(p) == proc[p].pc = "idle"
AllIdle == \A p \in Procs : Idle(p)

RECURSIVE FirstExpired(_, _, _)
\* The first position >= i of list whose challenge has endDate < t, or 0
FirstExpired(list, i, t) ==
    IF i > Len(list) THEN 0
    ELSE IF challenges[list[i].id].endDate < t THEN i
         ELSE FirstExpired(list, i + 1, t)

RECURSIVE FirstToUpdate(_, _, _)
\* The first position >= i of list that updateChallengeProgressWithTransaction
\* writes for transaction tx, or 0
FirstToUpdate(list, i, tx) ==
    IF i > Len(list) THEN 0
    ELSE IF updateChallengeProgressWithTransaction(Obj(list[i]), tx).shouldUpdate
         THEN i
         ELSE FirstToUpdate(list, i + 1, tx)

\* getActiveChallenges returns challenges.filter(c => c.status === ACTIVE),
\* over the objects it read
ReturnActive(r) ==
    [r EXCEPT !.pc = r.ret, !.idx = 1,
              !.list = SelectSeq(r.list, LAMBDA s : s.status = ACTIVE)]

\* getActiveChallenges after its find: on to the first expired challenge, or
\* back to the caller
AfterFind(r) ==
    LET j == FirstExpired(r.list, 1, r.gnow)
    IN  IF j = 0 THEN ReturnActive(r) ELSE [r EXCEPT !.pc = "ga_expire", !.idx = j]

\* updateChallengesWithNewData after the challenge at position i: on to the
\* next challenge the transaction changes, or to the second getActiveChallenges
AfterUpdate(r, i) ==
    LET j == FirstToUpdate(r.list, i, r.txs[1])
    IN  IF j = 0
        THEN [r EXCEPT !.pc = "ga_find", !.ret = "regen", !.list = <<>>,
                       !.idx = 0, !.txs = <<>>]
        ELSE [r EXCEPT !.pc = "up_eval", !.idx = j]

\* checkProgress after the challenge at position i
AfterCheck(r, i) ==
    IF i >= Len(r.list) THEN IdleProc ELSE [r EXCEPT !.pc = "cp_eval", !.idx = i + 1]

\* RewardsService.addPoints(userId, points, reason, { challengeId })
addPoints(u, pts, id) ==
    /\ points' = [points EXCEPT ![u] = @ + pts]
    /\ awards' = [awards EXCEPT ![id] = @ + 1]

----------------------------------------------------------------------------
(* Operations on the feed, the clock and the store *)

\* The clock advances
Tick ==
    /\ now < MaxTime
    /\ now' = now + 1
    /\ UNCHANGED <<challenges, transactions, goals, points, awards, proc, sweeps, everExpired, ledger>>

\* ChallengesService.createChallenge(u, d)
createChallenge(u, d) ==
    /\ Len(challenges) < MaxCh
    /\ challenges' = Append(challenges, NewChallenge(u, d, FALSE))
    /\ UNCHANGED <<transactions, goals, now, points, awards, proc, sweeps, everExpired, ledger>>

\* TransactionService.createTransaction: inserts the transaction and starts
\* updateUserChallenges, which runs updateChallengesWithNewData(u) as
\* invocation p without being awaited
createTransaction(p, u, type, amount, category, ahorro) ==
    /\ Idle(p)
    /\ Len(transactions) < MaxTx
    /\ transactions' = Append(transactions,
            [userId |-> u, type |-> type, amount |-> amount,
             category |-> category, ahorro |-> ahorro, createdAt |-> now,
             description |-> "manual", date |-> now])
    /\ proc' = [proc EXCEPT ![p] =
            [IdleProc EXCEPT !.pc = "ga_find", !.user = u, !.ret = "up",
                             !.by = "transaction"]]
    /\ UNCHANGED <<challenges, goals, now, points, awards, sweeps, everExpired, ledger>>

\* generateWeeklyChallengesForAllUsers reaching user u, who has transactions
\* (on this clock none is a week old): updateChallengesWithNewData(u) with no
\* new transaction
sweepUser(p, u) ==
    /\ Idle(p)
    /\ sweeps < MaxSweeps
    /\ FindTransactions(u) # <<>>
    /\ sweeps' = sweeps + 1
    /\ proc' = [proc EXCEPT ![p] =
            [IdleProc EXCEPT !.pc = "ga_find", !.user = u, !.ret = "up",
                             !.by = "sweep"]]
    /\ UNCHANGED <<challenges, transactions, goals, now, points, awards, everExpired, ledger>>

\* ChallengesService.checkProgress(u) called: it starts with getActiveChallenges
checkProgress(p, u) ==
    /\ Idle(p)
    /\ proc' = [proc EXCEPT ![p] =
            [IdleProc EXCEPT !.pc = "ga_find", !.user = u, !.ret = "cp",
                             !.by = "request"]]
    /\ UNCHANGED <<challenges, transactions, goals, now, points, awards, sweeps, everExpired, ledger>>

\* PATCH /challenges/:id with body { status: st } by the owner u:
\* ChallengesController.updateChallenge, then the service's updateChallenge
patchChallenge(u, id, st) ==
    /\ id \in ChIds
    /\ challenges[id].userId = u
    /\ awards[id] < MaxAwards
    /\ challenges' = SetStatus(challenges, id, st)
    /\ everExpired' = IF st = EXPIRED THEN everExpired \cup {id} ELSE everExpired
    /\ UNCHANGED <<transactions, goals, now, points, awards, proc, sweeps, ledger>>

----------------------------------------------------------------------------
(* getUserStats *)

RECURSIVE SumRewards(_)
\* reduce((sum, c) => sum + c.rewardPoints, 0)
SumRewards(s) == IF s = <<>> THEN 0 ELSE Head(s).rewardPoints + SumRewards(Tail(s))

\* challenges.filter(c => c.status === st)
WithStatus(s, st) == SelectSeq(s, LAMBDA c : c.status = st)

\* getUserStats with every challenge counted as earning its points
getUserStatsAllEarn(u) ==
    LET mine == SelectSeq(challenges, LAMBDA c : c.userId = u)
        done == Len(WithStatus(mine, COMPLETED))
        completed == done + Len(WithStatus(mine, FAILED))
    IN  [total |-> Len(mine),
         active |-> Len(WithStatus(mine, ACTIVE)),
         completed |-> done,
         failed |-> Len(WithStatus(mine, FAILED)),
         expired |-> Len(WithStatus(mine, EXPIRED)),
         totalPointsEarned |-> SumRewards(mine),
         successRate |-> IF completed > 0
                         THEN [num |-> done * 100, den |-> completed]
                         ELSE [num |-> 0, den |-> 1]]

\* getUserStats(u): the statistics over db.find('challenges', { userId }).
\* successRate is (stats.completed / completed) * 100, kept as the fraction
\* num / den
getUserStats(u) ==
    LET mine == SelectSeq(challenges, LAMBDA c : c.userId = u)
        done == Len(WithStatus(mine, COMPLETED))
        completed == done + Len(WithStatus(mine, FAILED))
    IN  [total |-> Len(mine),
         active |-> Len(WithStatus(mine, ACTIVE)),
         completed |-> done,
         failed |-> Len(WithStatus(mine, FAILED)),
         expired |-> Len(WithStatus(mine, EXPIRED)),
         totalPointsEarned |-> SumRewards(WithStatus(mine, COMPLETED)),
         successRate |-> IF completed > 0
                         THEN [num |-> done * 100, den |-> completed]
                         ELSE [num |-> 0, den |-> 1]]

\* GET /challenges/stats of user u as invocation p: the statistics are
\* computed and held for the response
getStats(p, u) ==
    /\ Idle(p)
    /\ proc' = [proc EXCEPT ![p] =
            [IdleProc EXCEPT !.pc = "respond", !.user = u, !.by = "request",
                             !.stats = getUserStats(u)]]
    /\ UNCHANGED <<challenges, transactions, goals, now, points, awards, sweeps, everExpired, ledger>>

\* res.json(stats)
respond(p) ==
    /\ proc[p].pc = "respond"
    /\ proc' = [proc EXCEPT ![p] = IdleProc]
    /\ UNCHANGED <<challenges, transactions, goals, now, points, awards, sweeps, everExpired, ledger>>

----------------------------------------------------------------------------
(* getActiveChallenges *)

\* db.find of the user's ACTIVE challenges, and const now = new Date()
gaFind(p) ==
    /\ proc[p].pc = "ga_find"
    /\ proc' = [proc EXCEPT ![p] =
            AfterFind([proc[p] EXCEPT !.list = FindActive(proc[p].user), !.gnow = now])]
    /\ UNCHANGED <<challenges, transactions, goals, now, points, awards, sweeps, everExpired, ledger>>

\* updateChallenge(challenge.id, { status: EXPIRED }) for the next challenge
\* whose endDate is before now
gaExpire(p) ==
    LET r == proc[p]
        j == FirstExpired(r.list, r.idx + 1, r.gnow)
    IN  /\ r.pc = "ga_expire"
        /\ challenges' = SetStatus(challenges, r.list[r.idx].id, EXPIRED)
        /\ proc' = [proc EXCEPT ![p] =
                IF j = 0 THEN ReturnActive(r) ELSE [r EXCEPT !.idx = j]]
        /\ everExpired' = everExpired \cup {r.list[r.idx].id}
        /\ UNCHANGED <<transactions, goals, now, points, awards, sweeps, ledger>>

----------------------------------------------------------------------------
(* checkProgress *)

\* db.find of the user's transactions and goals
cpLoad(p) ==
    LET r == proc[p]
    IN  /\ r.pc = "cp"
        /\ proc' = [proc EXCEPT ![p] =
                IF r.list = <<>> THEN IdleProc
                ELSE [r EXCEPT !.pc = "cp_eval", !.idx = 1,
                               !.txs = FindTransactions(r.user), !.gl = goals]]
        /\ UNCHANGED <<challenges, transactions, goals, now, points, awards, sweeps, everExpired, ledger>>

\* The branch the loop of checkProgress takes for challenge object ch with
\* progress prog at clock t, as the status it leaves in the store (stored is
\* the status the store holds, which updateChallenge(id, { progress }) keeps)
checkOutcome(ch, prog, t, stored) ==
    IF isChallengeCompleted(ch, prog, t) THEN COMPLETED
    ELSE IF isChallengeFailed(ch, prog, t) THEN FAILED
    ELSE stored

\* One turn of the loop of checkProgress: calculateProgress, then
\* completeChallenge up to its updateChallenge, failChallenge, or
\* updateChallenge(id, { progress })
cpEval(p) ==
    LET r == proc[p]
        s == r.list[r.idx]
        ch == Obj(s)
        prog == calculateProgress(ch, r.txs, r.gl, now)
        out == checkOutcome(ch, prog, now, challenges[s.id].status)
    IN  /\ r.pc = "cp_eval"
        /\ challenges' = SetStatusProgress(challenges, s.id, out, prog)
        /\ proc' = [proc EXCEPT ![p] =
                IF isChallengeCompleted(ch, prog, now)
                THEN [r EXCEPT !.pc = "cp_award"]
                ELSE AfterCheck(r, r.idx)]
        /\ UNCHANGED <<transactions, goals, now, points, awards, sweeps, everExpired, ledger>>

\* completeChallenge after its updateChallenge: addPoints
cpAward(p) ==
    LET r == proc[p]
        id == r.list[r.idx].id
    IN  /\ r.pc = "cp_award"
        /\ addPoints(challenges[id].userId, challenges[id].rewardPoints, id)
        /\ proc' = [proc EXCEPT ![p] = AfterCheck(r, r.idx)]
        /\ UNCHANGED <<challenges, transactions, goals, now, sweeps, everExpired, ledger>>

----------------------------------------------------------------------------
(* updateChallengesWithNewData *)

\* db.find of the user's transactions; the latest one is kept
upLoad(p) ==
    LET r == proc[p]
        all == FindTransactions(r.user)
    IN  /\ r.pc = "up"
        /\ proc' = [proc EXCEPT ![p] =
                IF all = <<>> THEN IdleProc
                ELSE AfterUpdate([r EXCEPT !.txs = <<latestTransaction(all)>>], 1)]
        /\ UNCHANGED <<challenges, transactions, goals, now, points, awards, sweeps, everExpired, ledger>>

\* db.update('challenges', id, { status, progress }) with what
\* updateChallengeProgressWithTransaction computed
WriteUpdate(id, u) ==
    challenges' = SetStatusProgress(challenges, id, u.status,
                                    [amt |-> u.amt, streak |-> u.streak])

\* updateChallengeProgressWithTransaction for the next challenge the
\* transaction changes: addPoints when it completes (the write follows),
\* else the write
upEval(p) ==
    LET r == proc[p]
        s == r.list[r.idx]
        u == updateChallengeProgressWithTransaction(Obj(s), r.txs[1])
    IN  /\ r.pc = "up_eval"
        /\ IF u.shouldComplete
           THEN /\ addPoints(challenges[s.id].userId, challenges[s.id].rewardPoints, s.id)
                /\ proc' = [proc EXCEPT ![p] = [r EXCEPT !.pc = "up_write"]]
                /\ UNCHANGED challenges
           ELSE /\ WriteUpdate(s.id, u)
                /\ proc' = [proc EXCEPT ![p] = AfterUpdate(r, r.idx + 1)]
                /\ UNCHANGED <<points, awards>>
        /\ UNCHANGED <<transactions, goals, now, sweeps, everExpired, ledger>>

\* The write of a completed challenge, after addPoints
upWrite(p) ==
    LET r == proc[p]
        s == r.list[r.idx]
    IN  /\ r.pc = "up_write"
        /\ WriteUpdate(s.id, updateChallengeProgressWithTransaction(Obj(s), r.txs[1]))
        /\ proc' = [proc EXCEPT ![p] = AfterUpdate(r, r.idx + 1)]
        /\ UNCHANGED <<transactions, goals, now, points, awards, sweeps, everExpired, ledger>>

\* The regeneration step: with fewer than 3 challenges in remainingActive,
\* generateChallenges({ userId, count: 3 - remainingActive.length }), whose
\* content model answers resp; the drafts parsed from the answer are what the
\* insert loop will persist
regenerate(p, resp) ==
    LET r == proc[p]
        generated == parseAIChallenges(resp, now)
    IN  /\ r.pc = "regen"
        /\ proc' = [proc EXCEPT ![p] =
                IF Len(r.list) < TargetActive /\ generated # <<>>
                THEN [IdleProc EXCEPT !.pc = "gen_ins", !.user = r.user,
                                      !.drafts = generated, !.idx = 1,
                                      !.by = r.by]
                ELSE IdleProc]
        /\ UNCHANGED <<challenges, transactions, goals, now, points, awards, sweeps, everExpired, ledger>>

\* db.insert('challenges', challenge) for the next generated draft
genInsert(p) ==
    LET r == proc[p]
    IN  /\ r.pc = "gen_ins"
        /\ Len(challenges) < MaxCh
        /\ challenges' = Append(challenges, NewChallenge(r.user, r.drafts[r.idx], TRUE))
        /\ proc' = [proc EXCEPT ![p] =
                IF r.idx >= Len(r.drafts) THEN IdleProc
                ELSE [r EXCEPT !.idx = r.idx + 1]]
        /\ UNCHANGED <<transactions, goals, now, points, awards, sweeps, everExpired, ledger>>

----------------------------------------------------------------------------
(* Failures inside a pass, and syncWithBelvo *)

\* A faulty handler that lets the error of a pass leave the invocation
updateUserChallengesRethrow(r) == [IdleProc EXCEPT !.pc = "unhandled", !.user = r.user]

\* The catch of TransactionService.updateUserChallenges (and the .catch on
\* its promise): the error is logged and the invocation ends
updateUserChallengesCatch(r) == [IdleProc EXCEPT !.err = TRUE]

\* An await of updateChallengesWithNewData rejects: the db.find of
\* getActiveChallenges, or aiService.processMessage inside generateChallenges
\* (reached with fewer than 3 challenges in remainingActive). The catch of
\* updateChallengesWithNewData logs and throws again.
passThrows(p) ==
    LET r == proc[p]
    IN  /\ r.ret \in {"up", "regen"}
        /\ \/ r.pc = "ga_find"
           \/ r.pc = "regen" /\ Len(r.list) < TargetActive
        /\ proc' = [proc EXCEPT ![p] = [r EXCEPT !.pc = "threw"]]
        /\ UNCHANGED <<challenges, transactions, goals, now, points, awards, sweeps, everExpired, ledger>>

\* The error arrives at the caller of updateChallengesWithNewData
catchError(p) ==
    /\ proc[p].pc = "threw"
    /\ proc' = [proc EXCEPT ![p] = updateUserChallengesCatch(proc[p])]
    /\ UNCHANGED <<challenges, transactions, goals, now, points, awards, sweeps, everExpired, ledger>>

\* The date of the Belvo mock's transactions (January 2024): more than a
\* week before every instant of the clock
BelvoDate == 0 - (WeekDays * Day + 1)

\* The transaction the Belvo mock hands out: an expense, with a negative amount
BelvoTransaction(u, t) ==
    [userId |-> u, type |-> "expense", amount |-> -2, category |-> "delivery",
     ahorro |-> FALSE, createdAt |-> t, description |-> "belvo",
     date |-> BelvoDate]

\* Two expenses in one category as getTransactions returns them for user u
BelvoFeed(u, t) ==
    << BelvoTransaction(u, t),
       [userId |-> u, type |-> "expense", amount |-> -1, category |-> "delivery",
        ahorro |-> FALSE, createdAt |-> t, description |-> "belvo-2",
        date |-> BelvoDate] >>

RECURSIVE InsertNew(_, _)
\* The loop of syncWithBelvo over the feed: a transaction is inserted unless
\* the store holds one of its user with its description and amount
InsertNew(store, feed) ==
    IF feed = <<>> THEN store
    ELSE LET tx == Head(feed)
             existing == SelectSeq(store,
                            LAMBDA x : /\ x.userId = tx.userId
                                       /\ x.description = tx.description
                                       /\ x.amount = tx.amount)
         IN  InsertNew(IF existing = <<>> THEN Append(store, tx) ELSE store, Tail(feed))

\* TransactionService.syncWithBelvo for user u with the given feed: inserts
\* the transactions that are new and, when it created any, starts
\* updateUserChallenges once without awaiting it
syncFeed(p, u, feed) ==
    LET stored == InsertNew(transactions, feed)
    IN  /\ Idle(p)
        /\ Len(stored) <= MaxTx
        /\ Len(stored) > Len(transactions)
        /\ transactions' = stored
        /\ proc' = [proc EXCEPT ![p] =
                [IdleProc EXCEPT !.pc = "ga_find", !.user = u, !.ret = "up",
                                 !.by = "transaction"]]
        /\ UNCHANGED <<challenges, goals, now, points, awards, sweeps, everExpired, ledger>>

\* TransactionService.syncWithBelvo(u) when the feed holds one transaction
syncWithBelvo(p, u) == syncFeed(p, u, <<BelvoTransaction(u, now)>>)

\* rewardsService.addPoints rejects inside completeChallenge: the error
\* leaves completeChallenge and checkProgress, whose caller answers with it
cpAwardFails(p) ==
    /\ proc[p].pc = "cp_award"
    /\ proc' = [proc EXCEPT ![p] = [IdleProc EXCEPT !.err = TRUE]]
    /\ UNCHANGED <<challenges, transactions, goals, now, points, awards, sweeps, everExpired, ledger>>

\* rewardsService.addPoints rejects inside
\* updateChallengeProgressWithTransaction: the inner catch logs it and the
\* write of the completed challenge follows
upAwardFails(p) ==
    LET r == proc[p]
    IN  /\ r.pc = "up_eval"
        /\ updateChallengeProgressWithTransaction(Obj(r.list[r.idx]), r.txs[1]).shouldComplete
        /\ proc' = [proc EXCEPT ![p] = [r EXCEPT !.pc = "up_write"]]
        /\ UNCHANGED <<challenges, transactions, goals, now, points, awards, sweeps, everExpired, ledger>>

\* GoalsService.contributeToGoal(u, g, amount) on an active goal of u: the
\* balance grows and the goal is completed once it reaches its target. The
\* points it awards (one per 1000 saved, targetAmount / 5000 at completion)
\* round to 0 for the amounts used here.
contributeToGoal(u, g, amount) ==
    LET newAmount == goals[g].currentAmount + amount
    IN  /\ goals[g].userId = u
        /\ goals[g].status = "active"
        /\ goals' = [goals EXCEPT ![g] =
                [goals[g] EXCEPT !.currentAmount = newAmount,
                                 !.status = IF newAmount >= goals[g].targetAmount
                                            THEN "completed" ELSE "active"]]
        /\ UNCHANGED <<challenges, transactions, now, points, awards, proc, sweeps, everExpired, ledger>>

\* One step of a checkProgress invocation p
StepCheck(p) ==
    \/ cpLoad(p)
    \/ cpEval(p)
    \/ cpAward(p)

\* One step of an updateChallengesWithNewData invocation p, up to its
\* regeneration step
StepUpdate(p) ==
    \/ upLoad(p)
    \/ upEval(p)
    \/ upWrite(p)

\* One step of getActiveChallenges in invocation p
StepActive(p) ==
    \/ gaFind(p)
    \/ gaExpire(p)

----------------------------------------------------------------------------
(* generateWeeklyChallengesForAllUsers: invocation w runs the loop, and the
   updateChallengesWithNewData it awaits for each user runs as invocation p *)

\* db.find('users', {}), in insertion order
AllUsers == <<"u1", "u2">>

\* recentTransactions.some(t => new Date(t.date) > weekAgo)
hasRecentActivity(u) ==
    \E k \in 1..Len(transactions) :
        transactions[k].userId = u /\ transactions[k].date > now - WeekDays * Day

\* A per-user catch that gives the whole sweep up
sweepAbortOnError(r) ==
    [r EXCEPT !.pc = "idle", !.queue = <<>>, !.errorCount = r.errorCount + 1]

\* The per-user catch: errorCount++, and the loop goes on with the next user
sweepAfterError(r) ==
    [r EXCEPT !.pc = "sweep_next", !.queue = Tail(r.queue),
              !.errorCount = r.errorCount + 1]

\* The cron job of ChallengesWorker fires: the sweep reads the users
generateWeeklyChallengesForAllUsers(w) ==
    /\ AllIdle
    /\ sweeps < MaxSweeps
    /\ sweeps' = sweeps + 1
    /\ proc' = [proc EXCEPT ![w] =
            [IdleProc EXCEPT !.pc = "sweep_next", !.by = "sweep", !.queue = AllUsers]]
    /\ UNCHANGED <<challenges, transactions, goals, now, points, awards, everExpired, ledger>>

\* The loop reaches the next user: a pass is started for a user with recent
\* activity, any other user is skipped; after the last user the sweep ends
sweepNext(w, p) ==
    LET r == proc[w]
        u == Head(r.queue)
    IN  /\ r.pc = "sweep_next"
        /\ proc' =
              IF r.queue = <<>> THEN [proc EXCEPT ![w] = [r EXCEPT !.pc = "idle"]]
              ELSE IF hasRecentActivity(u)
              THEN [proc EXCEPT
                      ![w] = [r EXCEPT !.pc = "sweep_wait", !.ran = Append(r.ran, u)],
                      ![p] = [IdleProc EXCEPT !.pc = "ga_find", !.user = u,
                                              !.ret = "up", !.by = "sweep"]]
              ELSE [proc EXCEPT ![w] = [r EXCEPT !.queue = Tail(r.queue)]]
        /\ UNCHANGED <<challenges, transactions, goals, now, points, awards, sweeps, everExpired, ledger>>

\* The awaited pass returned: successCount++
sweepResume(w, p) ==
    LET r == proc[w]
    IN  /\ r.pc = "sweep_wait"
        /\ Idle(p)
        /\ proc' = [proc EXCEPT ![w] =
                [r EXCEPT !.pc = "sweep_next", !.queue = Tail(r.queue),
                          !.successCount = r.successCount + 1]]
        /\ UNCHANGED <<challenges, transactions, goals, now, points, awards, sweeps, everExpired, ledger>>

\* The awaited pass threw: the per-user catch takes the error
sweepCatch(w, p) ==
    /\ proc[w].pc = "sweep_wait"
    /\ proc[p].pc = "threw"
    /\ proc' = [proc EXCEPT ![w] = sweepAfterError(proc[w]), ![p] = IdleProc]
    /\ UNCHANGED <<challenges, transactions, goals, now, points, awards, sweeps, everExpired, ledger>>

----------------------------------------------------------------------------
(* RewardsService.addPoints and subtractPoints, await by await. The
   'user_points' record of every user exists; its points field is the
   variable points, its totals are in ledger. *)

\* getUserPoints(u): the stored record as db.find hands it out
getUserPoints(u) ==
    [points |-> points[u], totalEarned |-> ledger.totalEarned[u],
     totalSpent |-> ledger.totalSpent[u]]

\* createPointsTransaction(u, n, type): one more record in points_transactions
createPointsTransaction(u, n, type) ==
    ledger' = [ledger EXCEPT !.log = Append(@, [userId |-> u, points |-> n, type |-> type])]

\* The calls in flight that have not yet written their points_transactions record
InFlight == Cardinality({p \in Procs : ~Idle(p)})

\* addPoints(u, n) is called and reads the user's record
addPointsRead(p, u, n) ==
    /\ Idle(p)
    /\ Len(ledger.log) + InFlight < MaxLog
    /\ proc' = [proc EXCEPT ![p] =
            [IdleProc EXCEPT !.pc = "add_update", !.user = u, !.n = n,
                             !.userPoints = getUserPoints(u)]]
    /\ UNCHANGED <<challenges, transactions, goals, now, points, awards, sweeps, everExpired, ledger>>

\* db.update('user_points', id, { points: userPoints.points + n,
\*                                totalEarned: userPoints.totalEarned + n })
addPointsUpdate(p) ==
    LET r == proc[p]
    IN  /\ r.pc = "add_update"
        /\ points' = [points EXCEPT ![r.user] = r.userPoints.points + r.n]
        /\ ledger' = [ledger EXCEPT !.totalEarned[r.user] = r.userPoints.totalEarned + r.n]
        /\ proc' = [proc EXCEPT ![p] = [r EXCEPT !.pc = "add_log"]]
        /\ UNCHANGED <<challenges, transactions, goals, now, awards, sweeps, everExpired>>

\* createPointsTransaction(u, n, 'earn'), after which addPoints returns
addPointsLog(p) ==
    /\ proc[p].pc = "add_log"
    /\ createPointsTransaction(proc[p].user, proc[p].n, "earn")
    /\ proc' = [proc EXCEPT ![p] = IdleProc]
    /\ UNCHANGED <<challenges, transactions, goals, now, points, awards, sweeps, everExpired>>

\* subtractPoints(u, n) is called and reads the user's record: with fewer
\* points than n it throws 'Puntos insuficientes'
subtractPointsRead(p, u, n) ==
    /\ Idle(p)
    /\ Len(ledger.log) + InFlight < MaxLog
    /\ proc' = [proc EXCEPT ![p] =
            IF points[u] < n
            THEN [IdleProc EXCEPT !.user = u, !.n = n, !.err = TRUE]
            ELSE [IdleProc EXCEPT !.pc = "sub_update", !.user = u, !.n = n,
                                  !.userPoints = getUserPoints(u)]]
    /\ UNCHANGED <<challenges, transactions, goals, now, points, awards, sweeps, everExpired, ledger>>

\* db.update('user_points', id, { points: userPoints.points - n,
\*                                totalSpent: userPoints.totalSpent + n })
subtractPointsUpdate(p) ==
    LET r == proc[p]
    IN  /\ r.pc = "sub_update"
        /\ points' = [points EXCEPT ![r.user] = r.userPoints.points - r.n]
        /\ ledger' = [ledger EXCEPT !.totalSpent[r.user] = r.userPoints.totalSpent + r.n]
        /\ proc' = [proc EXCEPT ![p] = [r EXCEPT !.pc = "sub_log"]]
        /\ UNCHANGED <<challenges, transactions, goals, now, awards, sweeps, everExpired>>

\* createPointsTransaction(u, n, 'spend'), after which subtractPoints returns
subtractPointsLog(p) ==
    /\ proc[p].pc = "sub_log"
    /\ createPointsTransaction(proc[p].user, proc[p].n, "spend")
    /\ proc' = [proc EXCEPT ![p] = IdleProc]
    /\ UNCHANGED <<challenges, transactions, goals, now, points, awards, sweeps, everExpired>>

----------------------------------------------------------------------------
(* Inputs *)

\* What the content model may answer
NoArrayResponse == [hasArray |-> FALSE, parses |-> FALSE, items |-> <<>>]
BadJsonResponse == [hasArray |-> TRUE, parses |-> FALSE, items |-> <<>>]
ArrayResponse(items) == [hasArray |-> TRUE, parses |-> TRUE, items |-> items]

\* A savings item as the prompt asks for it: one week from now
SavingsItem(t) == Draft(SAVINGS, 2, NoCat, NoVal, NoGoal, 0, t, t + WeekDays * Day)

\* An item whose type is none of the ChallengeType values
BogusItem(t) == Draft("bogus", 2, NoCat, NoVal, NoGoal, 25, t, t + WeekDays * Day)

\* An item the content model dated in the past
StaleItem(t) == Draft(SAVINGS, 2, NoCat, NoVal, NoGoal, 25, t - 2, t - 1)

Responses(t) ==
    {NoArrayResponse, BadJsonResponse,
     ArrayResponse(<<SavingsItem(t)>>),
     ArrayResponse(<<SavingsItem(t), SavingsItem(t)>>),
     ArrayResponse(<<BogusItem(t)>>),
     ArrayResponse(<<StaleItem(t), SavingsItem(t)>>)}

\* Manual challenges that are in the store when the model starts, created at
\* tick 0 and all ending at tick 2
SavingsDraft == Draft(SAVINGS, 2, NoCat, NoVal, NoGoal, 10, 0, 2)
SpendingDraft == Draft(SPENDING_LIMIT, 2, "delivery", NoVal, NoGoal, 20, 0, 2)
BanDraft == Draft(CATEGORY_BAN, NoVal, "delivery", 7, NoGoal, 30, 0, 2)
StreakDraft == Draft(STREAK, NoVal, "delivery", 1, NoGoal, 40, 0, 2)
GoalDraft == Draft(GOAL_CONTRIBUTION, 2, NoCat, NoVal, "g1", 50, 0, 2)
IncomeDraft == Draft(INCOME_PERCENTAGE, 2, NoCat, NoVal, NoGoal, 60, 0, 2)
ManualDrafts ==
    {SavingsDraft, SpendingDraft, BanDraft, StreakDraft, GoalDraft, IncomeDraft}

\* The targetAmount of the savings goal the store starts with
GoalTarget == 3

InitWith(store, t) ==
    /\ challenges = store
    /\ transactions = <<>>
    /\ goals = [g \in GoalIds |->
                    [userId |-> "u1", currentAmount |-> 0,
                     targetAmount |-> GoalTarget, status |-> "active"]]
    /\ now = t
    /\ points = [u \in Users |-> 0]
    /\ awards = [i \in 1..MaxCh |-> 0]
    /\ proc = [p \in Procs |-> IdleProc]
    /\ sweeps = 0
    /\ everExpired = {}
    /\ ledger = [totalEarned |-> [u \in Users |-> 0],
                 totalSpent |-> [u \in Users |-> 0],
                 log |-> <<>>]

----------------------------------------------------------------------------
(* Evaluation passes run one after another: user u1 with one manual
   challenge, transactions recorded in between, one invocation at a time *)

InitSeq == \E d \in ManualDrafts : InitWith(<<NewChallenge("u1", d, FALSE)>>, 0)

NextSeq ==
    \/ Tick
    \/ \E type \in {"income", "expense"} :
            createTransaction("p1", "u1", type, 2, "delivery", FALSE)
    \/ sweepUser("p1", "u1")
    \/ checkProgress("p1", "u1")
    \/ StepActive("p1")
    \/ StepCheck("p1")
    \/ StepUpdate("p1")
    \/ genInsert("p1")
    \/ \E resp \in {NoArrayResponse, ArrayResponse(<<SavingsItem(now)>>)} :
            regenerate("p1", resp)

SpecSeq == InitSeq /\ [][NextSeq]_vars

----------------------------------------------------------------------------
(* A per-transaction pass and a batch pass of the same user in flight
   together, early in the challenge's window or after its end: invocation p1
   is the updateChallengesWithNewData that createTransaction starts,
   invocation p2 a checkProgress request *)

Init ==
    \E d \in {SavingsDraft, SpendingDraft}, t \in {0, MaxTime} :
        InitWith(<<NewChallenge("u1", d, FALSE)>>, t)

Next ==
    \/ \E type \in {"income", "expense"} :
            createTransaction("p1", "u1", type, 2, "delivery", FALSE)
    \/ checkProgress("p2", "u1")
    \/ StepActive("p1")
    \/ StepActive("p2")
    \/ StepUpdate("p1")
    \/ StepCheck("p2")
    \/ regenerate("p1", NoArrayResponse)
    \/ genInsert("p1")

Spec == Init /\ [][Next]_vars

----------------------------------------------------------------------------
(* Batch passes one after another, and PATCH requests of the owner *)

NextPatch ==
    \/ Tick
    \/ checkProgress("p1", "u1")
    \/ StepActive("p1")
    \/ StepCheck("p1")
    \/ \E id \in ChIds, st \in {ACTIVE} \cup Terminal :
            AllIdle /\ patchChallenge("u1", id, st)

SpecPatch == InitSeq /\ [][NextPatch]_vars

----------------------------------------------------------------------------
(* The per-transaction path alone, at one fixed instant: a pass after every
   transaction; the content model answers with an empty array *)

InitEq ==
    \E d \in ManualDrafts, t \in 0..MaxTime :
        InitWith(<<NewChallenge("u1", d, FALSE)>>, t)

NextEq ==
    \/ \E type \in {"income", "expense"}, amount \in {1, 2},
          category \in {"delivery", "other"} :
            createTransaction("p1", "u1", type, amount, category, FALSE)
    \/ StepActive("p1")
    \/ StepUpdate("p1")
    \/ regenerate("p1", ArrayResponse(<<>>))

SpecEq == InitEq /\ [][NextEq]_vars

----------------------------------------------------------------------------
(* The per-transaction path with its regeneration step, against every answer
   of the content model: user u1 starts with zero, one or two manual
   challenges *)

InitRegen ==
    \E store \in {<<>>, <<NewChallenge("u1", SavingsDraft, FALSE)>>,
                  <<NewChallenge("u1", SavingsDraft, FALSE),
                    NewChallenge("u1", SpendingDraft, FALSE)>>} :
        InitWith(store, 0)

NextRegen ==
    \/ Tick
    \/ createTransaction("p1", "u1", "income", 1, "other", FALSE)
    \/ StepActive("p1")
    \/ StepUpdate("p1")
    \/ \E resp \in Responses(now) : regenerate("p1", resp)
    \/ genInsert("p1")

SpecRegen == InitRegen /\ [][NextRegen]_vars

----------------------------------------------------------------------------
(* Transaction processing with passes that fail: user u1 starts with zero or
   one manual challenge; a pass may reject at its first read or at the call
   of the content model *)

InitFail ==
    \E store \in {<<>>, <<NewChallenge("u1", SavingsDraft, FALSE)>>} :
        InitWith(store, 0)

NextFail ==
    \/ Tick
    \/ createTransaction("p1", "u1", "income", 1, "other", FALSE)
    \/ syncWithBelvo("p1", "u1")
    \/ StepActive("p1")
    \/ StepUpdate("p1")
    \/ regenerate("p1", NoArrayResponse)
    \/ genInsert("p1")
    \/ passThrows("p1")
    \/ catchError("p1")

SpecFail == InitFail /\ [][NextFail]_vars

----------------------------------------------------------------------------
(* Passes one after another with a ledger that may reject addPoints. Requests
   keep arriving, so the system never stops while a step is possible, and an
   addPoints that is attempted again and again succeeds at some attempt. *)

NextLedger ==
    \/ Tick
    \/ createTransaction("p1", "u1", "income", 2, "delivery", FALSE)
    \/ checkProgress("p1", "u1")
    \/ StepActive("p1")
    \/ StepCheck("p1")
    \/ StepUpdate("p1")
    \/ regenerate("p1", ArrayResponse(<<>>))
    \/ cpAwardFails("p1")
    \/ upAwardFails("p1")

SpecLedger ==
    /\ InitSeq
    /\ [][NextLedger]_vars
    /\ WF_vars(NextLedger)
    /\ SF_vars(cpAward("p1"))
    /\ SF_vars(upEval("p1"))

----------------------------------------------------------------------------
(* The rules of each challenge type: user u1 with one manual challenge and
   passes one after another. Every transaction gets a createdAt of its own
   (the clock has advanced since the last insert), a pass follows each
   transaction, and the content model answers with an empty array. *)

\* No stored transaction was created at the present instant
\* A CATEGORY_BAN request that carries no rules.streakDays
BanOpenDraft == Draft(CATEGORY_BAN, NoVal, "delivery", NoVal, NoGoal, 30, 0, 2)

InitRules ==
    \E d \in ManualDrafts \cup {BanOpenDraft} :
        InitWith(<<NewChallenge("u1", d, FALSE)>>, 0)

FreshInstant == \A k \in 1..Len(transactions) : transactions[k].createdAt < now

NextRules ==
    \/ Tick
    \/ \E type \in {"income", "expense"}, amount \in {1, 2},
          category \in {"delivery", "other"} :
            FreshInstant /\ createTransaction("p1", "u1", type, amount, category, FALSE)
    \/ FreshInstant /\ createTransaction("p1", "u1", "income", 2, "other", TRUE)
    \/ AllIdle /\ contributeToGoal("u1", "g1", 2)
    \/ sweepUser("p1", "u1")
    \/ checkProgress("p1", "u1")
    \/ StepActive("p1")
    \/ StepCheck("p1")
    \/ StepUpdate("p1")
    \/ regenerate("p1", ArrayResponse(<<>>))

SpecRules == InitRules /\ [][NextRules]_vars

----------------------------------------------------------------------------
(* A STREAK challenge requested while the user already has transactions: the
   store starts empty, user u1 records transactions and at some point asks
   for one challenge (STREAK, or SAVINGS) whose startDate is tick 0 *)

InitStreak == InitWith(<<>>, 0)

NextStreak ==
    \/ Tick
    \/ \E type \in {"income", "expense"}, category \in {"delivery", "other"} :
            FreshInstant /\ createTransaction("p1", "u1", type, 1, category, FALSE)
    \/ \E d \in {StreakDraft, SavingsDraft} :
            AllIdle /\ challenges = <<>> /\ createChallenge("u1", d)
    \/ checkProgress("p1", "u1")
    \/ StepActive("p1")
    \/ StepCheck("p1")
    \/ StepUpdate("p1")
    \/ regenerate("p1", ArrayResponse(<<>>))

SpecStreak == InitStreak /\ [][NextStreak]_vars

----------------------------------------------------------------------------
(* Passes repeated at one fixed instant: a pass after every transaction,
   then further passes (weekly sweep, checkProgress requests) with no new
   activity in between; the content model answers with an empty array *)

NextIdem ==
    \/ \E type \in {"income", "expense"}, category \in {"delivery", "other"} :
            createTransaction("p1", "u1", type, 1, category, FALSE)
    \/ sweepUser("p1", "u1")
    \/ checkProgress("p1", "u1")
    \/ StepActive("p1")
    \/ StepCheck("p1")
    \/ StepUpdate("p1")
    \/ regenerate("p1", ArrayResponse(<<>>))

SpecIdem == InitEq /\ [][NextIdem]_vars

----------------------------------------------------------------------------
(* POST /challenges with drafts whose rules fit their type and drafts whose
   rules lack the field the type is evaluated with, and checkProgress
   requests in between *)

SavingsNoTarget == Draft(SAVINGS, NoVal, NoCat, NoVal, NoGoal, 10, 0, 2)
StreakNoDays == Draft(STREAK, NoVal, "delivery", NoVal, NoGoal, 40, 0, 2)
BanNoCategory == Draft(CATEGORY_BAN, NoVal, NoCat, 7, NoGoal, 30, 0, 2)
PostedDrafts ==
    {SavingsDraft, StreakDraft, BanDraft, SavingsNoTarget, StreakNoDays, BanNoCategory}

InitCreate == InitWith(<<>>, 0)

NextCreate ==
    \/ Tick
    \/ \E d \in PostedDrafts :
            AllIdle /\ Len(challenges) < MaxPosted /\ createChallenge("u1", d)
    \/ checkProgress("p1", "u1")
    \/ StepActive("p1")
    \/ StepCheck("p1")

SpecCreate == InitCreate /\ [][NextCreate]_vars

----------------------------------------------------------------------------
(* GET /challenges/stats between batch passes and PATCH requests: two
   challenges of u1 and one of u2 *)

InitStats ==
    InitWith(<<NewChallenge("u1", SavingsDraft, FALSE),
               NewChallenge("u1", SpendingDraft, FALSE),
               NewChallenge("u2", StreakDraft, FALSE)>>, 0)

NextStats ==
    \/ Tick
    \/ \E u \in Users : checkProgress("p1", u)
    \/ StepActive("p1")
    \/ StepCheck("p1")
    \/ \E u \in Users, id \in ChIds, st \in {ACTIVE} \cup Terminal :
            AllIdle /\ patchChallenge(u, id, st)
    \/ \E u \in Users : getStats("p1", u)
    \/ respond("p1")

SpecStats == InitStats /\ [][NextStats]_vars

----------------------------------------------------------------------------
(* Two users with one savings challenge each: invocation p1 runs the passes
   of u1, invocation p2 those of u2, in flight together *)

InitFrame ==
    InitWith(<<NewChallenge("u1", SavingsDraft, FALSE),
               NewChallenge("u2", SavingsDraft, FALSE)>>, 0)

\* The invocation that serves user u
ProcOf(u) == IF u = "u1" THEN "p1" ELSE "p2"

NextFrame ==
    \/ Tick
    \/ \E u \in Users : createTransaction(ProcOf(u), u, "income", 2, "other", FALSE)
    \/ \E u \in Users : sweepUser(ProcOf(u), u)
    \/ \E u \in Users : checkProgress(ProcOf(u), u)
    \/ \E p \in Procs : StepActive(p)
    \/ \E p \in Procs : StepCheck(p)
    \/ \E p \in Procs : StepUpdate(p)
    \/ \E p \in Procs : regenerate(p, ArrayResponse(<<SavingsItem(now)>>))
    \/ \E p \in Procs : genInsert(p)

SpecFrame == InitFrame /\ [][NextFrame]_vars

----------------------------------------------------------------------------
(* The per-transaction path alone: one spending_limit challenge that stays
   open (it neither ends nor reaches its limit, so nothing expires and
   nothing is rewarded), expenses recorded one by one or synchronised two at
   a time, and the weekly sweep *)

OpenSpendingDraft ==
    Draft(SPENDING_LIMIT, 3 * MaxTx + 3, "delivery", NoVal, NoGoal, 20, 0, MaxTime + 1)

InitOnce == InitWith(<<NewChallenge("u1", OpenSpendingDraft, FALSE)>>, 0)

NextOnce ==
    \/ Tick
    \/ createTransaction("p1", "u1", "expense", 1, "delivery", FALSE)
    \/ syncFeed("p1", "u1", BelvoFeed("u1", now))
    \/ sweepUser("p1", "u1")
    \/ gaFind("p1")
    \/ upLoad("p1")
    \/ upEval("p1")
    \/ regenerate("p1", ArrayResponse(<<>>))

SpecOnce == InitOnce /\ [][NextOnce]_vars

----------------------------------------------------------------------------
(* The weekly sweep over two users with one savings challenge each: before
   it, transactions are recorded by hand (dated now) or synchronised from
   Belvo (dated long ago), each followed by its pass; the sweep runs as
   invocation p2 and the passes as invocation p1, and a pass may throw *)

\* The content model answers with no challenge, or with one while the store
\* has room for it
SweepResponses ==
    {ArrayResponse(<<>>)} \cup
    (IF Len(challenges) < MaxCh THEN {ArrayResponse(<<SavingsItem(now)>>)} ELSE {})

\* A step of the pass in flight
PassStep ==
    \/ StepActive("p1")
    \/ StepUpdate("p1")
    \/ \E resp \in SweepResponses : regenerate("p1", resp)
    \/ genInsert("p1")

\* A step of the sweep
SweepStep ==
    \/ sweepNext("p2", "p1")
    \/ sweepResume("p2", "p1")
    \/ sweepCatch("p2", "p1")

NextSweep ==
    \/ Tick
    \/ \E u \in Users : AllIdle /\ createTransaction("p1", u, "income", 1, "other", FALSE)
    \/ AllIdle /\ syncWithBelvo("p1", "u2")
    \/ generateWeeklyChallengesForAllUsers("p2")
    \/ PassStep
    \/ SweepStep
    \/ passThrows("p1")
    \/ Idle("p2") /\ catchError("p1")

\* Node runs every continuation that is ready, so the sweep and the pass it
\* awaits keep taking steps
SpecSweep == InitFrame /\ [][NextSweep]_vars /\ WF_vars(PassStep \/ SweepStep)

----------------------------------------------------------------------------
(* The points ledger: addPoints and subtractPoints calls of both users, two
   in flight at a time *)

NextPoints ==
    \/ \E p \in Procs, u \in Users, n \in {1, 2} : addPointsRead(p, u, n)
    \/ \E p \in Procs : addPointsUpdate(p)
    \/ \E p \in Procs : addPointsLog(p)
    \/ \E p \in Procs, u \in Users, n \in {1, 2} : subtractPointsRead(p, u, n)
    \/ \E p \in Procs : subtractPointsUpdate(p)
    \/ \E p \in Procs : subtractPointsLog(p)

SpecPoints == InitWith(<<>>, 0) /\ [][NextPoints]_vars

----------------------------------------------------------------------------
(* Properties *)

Min(a, b) == IF a < b THEN a ELSE b

\* The challenges of user u that store holds with status ACTIVE
ActiveIn(store, u) ==
    {i \in 1..Len(store) : store[i].userId = u /\ store[i].status = ACTIVE}

\* ... and that are not past their endDate at clock t
LiveIn(store, u, t) == {i \in ActiveIn(store, u) : store[i].endDate >= t}

\* Every challenge was rewarded at most once, and between passes a COMPLETED
\* challenge was rewarded exactly once
RewardedOnce ==
    \A id \in ChIds :
        /\ awards[id] <= 1
        /\ AllIdle /\ challenges[id].status = COMPLETED => awards[id] = 1

\* C1: when evaluation passes run one after another, addPoints is invoked at
\* most once per challenge id, exactly once for a challenge that is COMPLETED,
\* and a COMPLETED challenge is not touched by later passes.
C1_RewardOnceSequential ==
    /\ []RewardedOnce
    /\ [][\A id \in ChIds :
            challenges[id].status = COMPLETED =>
                challenges'[id] = challenges[id]]_vars

\* A COMPLETED, rewarded challenge, after the pass that completed it went on
\* to regenerate and a further transaction was evaluated
C1_Witness ==
    /\ AllIdle
    /\ Len(transactions) = MaxTx
    /\ \E id \in ChIds :
        /\ challenges[id].status = COMPLETED
        /\ awards[id] = 1
        /\ Len(challenges) > id

\* C2: when a per-transaction pass and a batch pass of one user interleave,
\* addPoints is invoked at most once per challenge id and exactly once for
\* each COMPLETED challenge.
C2_RewardOnceConcurrent ==
    \A id \in ChIds :
        /\ awards[id] <= 1
        /\ AllIdle /\ challenges[id].status = COMPLETED => awards[id] = 1

\* C3: once a challenge is stored COMPLETED, FAILED or EXPIRED, no step of an
\* evaluation pass changes its stored status or progress.
C3_TerminalFinal ==
    [][\A id \in ChIds :
            challenges[id].status \in Terminal =>
                /\ challenges'[id].status = challenges[id].status
                /\ challenges'[id].amt = challenges[id].amt
                /\ challenges'[id].streak = challenges[id].streak]_vars

\* C4: the only status changes a service operation persists are ACTIVE to
\* COMPLETED, FAILED or EXPIRED; so a PATCH of the owner that carries a status
\* for a challenge stored in a terminal status leaves the stored status alone.
C4_PatchKeepsTerminal ==
    [][\A id \in ChIds, st \in {ACTIVE} \cup Terminal :
            patchChallenge("u1", id, st) /\ challenges[id].status \in Terminal =>
                challenges'[id].status = challenges[id].status]_vars

\* The challenge the store started with, as it was created
FirstChallenge == [challenges[1] EXCEPT !.status = ACTIVE, !.amt = 0, !.streak = 0]

\* The progress one checkProgress over the whole history computes for it now
BatchProgress == calculateProgress(FirstChallenge, FindTransactions("u1"), goals, now)

\* The status that checkProgress leaves: getActiveChallenges first stores
\* EXPIRED when endDate < now, then the loop decides
BatchStatus ==
    checkOutcome(FirstChallenge, BatchProgress, now,
                 IF FirstChallenge.endDate < now THEN EXPIRED ELSE ACTIVE)

\* C5: for every challenge type, after the per-transaction path ran once
\* after each transaction, the challenge has the status, currentAmount and
\* currentStreak that one batch checkProgress over the full history gives at
\* the same instant.
C5_IncrementalEqualsBatch ==
    AllIdle /\ transactions # <<>> =>
        /\ challenges[1].status = BatchStatus
        /\ challenges[1].amt = BatchProgress.amt
        /\ challenges[1].streak = BatchProgress.streak

\* The user of challenge record ch has an expense in the banned category
\* since startDate
HasBannedExpense(ch) ==
    \E k \in 1..Len(transactions) :
        /\ transactions[k].userId = ch.userId
        /\ transactions[k].type = "expense"
        /\ transactions[k].category = ch.category
        /\ transactions[k].createdAt >= ch.startDate

\* Challenge record ch is failed by the rule of its type
FailedByRule(ch) ==
    CASE ch.type = SPENDING_LIMIT -> Or0(ch.amt) > Or0(ch.target)
      [] ch.type \in {CATEGORY_BAN, STREAK} -> HasBannedExpense(ch)
      [] OTHER -> FALSE

\* C6: an evaluation at an instant now >= endDate never stores FAILED for a
\* challenge that its rule did not fail (it is to end EXPIRED).
C6_ExpiryIsNotFailure ==
    [][\A id \in ChIds :
            /\ now >= challenges[id].endDate
            /\ challenges[id].status # FAILED
            /\ challenges'[id].status = FAILED
            => FailedByRule(challenges'[id])]_vars

\* C7: addPoints is never invoked for a challenge id whose status was ever
\* stored as EXPIRED.
C7_NoRewardAfterExpiry ==
    [][\A id \in ChIds : id \in everExpired => awards'[id] = awards[id]]_vars

\* The regeneration step of invocation p never lowers the number of u's
\* challenges counted by Count, and when its last insert is done that number
\* is at least min(3, number of drafts the generator returned)
PopulationFloor(Count(_, _)) ==
    \A p \in Procs :
        proc[p].pc = "gen_ins" =>
            /\ Count(challenges', proc[p].user) >= Count(challenges, proc[p].user)
            /\ proc'[p].pc = "idle" =>
                Count(challenges', proc[p].user)
                    >= Min(TargetActive, Len(proc[p].drafts))

CountLive(store, u) == Cardinality(LiveIn(store, u, now))
CountActive(store, u) == Cardinality(ActiveIn(store, u))

ParseFailure(resp) ==
    \/ ~resp.hasArray
    \/ ~resp.parses
    \/ \E k \in 1..Len(resp.items) : resp.items[k].type \notin ChallengeType

\* C10: on a parse failure of the content model's answer the drafts that
\* generateChallenges persists are the fallback templates.
C10_FallbackOnParseFailure ==
    [][\A resp \in Responses(now) :
            /\ regenerate("p1", resp)
            /\ Len(proc["p1"].list) < TargetActive
            /\ ParseFailure(resp)
            => proc'["p1"].drafts = generateFallbackChallenges(now)]_vars

\* s is an initial segment of t
IsPrefix(s, t) == Len(s) <= Len(t) /\ SubSeq(t, 1, Len(s)) = s

\* C11: a pass of updateChallengesWithNewData that throws (at a read, or at
\* the content-model call) never breaks transaction processing: its error
\* ends in the handler and leaves no invocation with an unhandled error, and
\* every transaction createTransaction or syncWithBelvo inserted stays stored.
C11_FailuresStayInside ==
    /\ [](\A p \in Procs : proc[p].pc # "unhandled")
    /\ [][IsPrefix(transactions, transactions')]_vars

\* A pass started by syncWithBelvo after one started by createTransaction has
\* ended in the handler, with both transactions stored
C11_Witness ==
    /\ proc["p1"].err
    /\ Len(transactions) = 2
    /\ transactions[2].description = "belvo"

\* C12: a challenge stored COMPLETED is not left without its reward for
\* good, also when addPoints failed at its completion: at some later point
\* the reward has been issued, exactly once.
C12_RewardEventuallyIssued ==
    \A id \in 1..MaxCh :
        (id \in ChIds /\ challenges[id].status = COMPLETED) ~> (awards[id] = 1)

\* C13: with a per-transaction pass and a batch pass in flight together, a
\* challenge that one pass stored as COMPLETED or FAILED is not written by
\* the other pass from its earlier read: its status and progress stay (no
\* lost update, no return to ACTIVE).
C13_NoLostUpdate ==
    [][\A id \in ChIds :
            challenges[id].status \in {COMPLETED, FAILED} =>
                challenges'[id] = challenges[id]]_vars

\* The user's transactions of the given type created at or after the
\* startDate of challenge record ch
InWindow(ch, type) ==
    SelectSeq(transactions,
              LAMBDA x : x.userId = ch.userId /\ x.type = type
                         /\ x.createdAt >= ch.startDate)

\* C14: between passes a SAVINGS challenge that is still ACTIVE holds as
\* currentAmount the sum of the user's income transactions since startDate,
\* below the target, and one that is COMPLETED has such a sum at or above the
\* target; this on the per-transaction path and on the batch path.
C14_SavingsIsIncomeSum ==
    \A id \in ChIds :
        AllIdle /\ challenges[id].type = SAVINGS =>
            LET total == SumAmount(InWindow(challenges[id], "income"))
            IN  /\ challenges[id].status = ACTIVE =>
                    challenges[id].amt = total /\ total < challenges[id].target
                /\ challenges[id].status = COMPLETED => total >= challenges[id].target

RECURSIVE SumMagnitude(_)
\* The sum of the magnitudes of the amounts of the transactions in s
SumMagnitude(s) == IF s = <<>> THEN 0 ELSE Abs(Head(s).amount) + SumMagnitude(Tail(s))

\* Every expense of the user of challenge record ch is in ch's category
ExpensesInCategory(ch) ==
    \A k \in 1..Len(transactions) :
        transactions[k].userId = ch.userId /\ transactions[k].type = "expense" =>
            transactions[k].category = ch.category

\* C15: between passes, with every expense in the challenge's category, a
\* SPENDING_LIMIT challenge is FAILED only if its expense total exceeds the
\* target, ACTIVE only if the total does not, and COMPLETED only at or after
\* endDate with the total within the target.
C15_SpendingLimitVerdict ==
    \A id \in ChIds :
        AllIdle /\ challenges[id].type = SPENDING_LIMIT /\ ExpensesInCategory(challenges[id]) =>
            LET total == SumMagnitude(InWindow(challenges[id], "expense"))
            IN  /\ challenges[id].status = FAILED => total > challenges[id].target
                /\ challenges[id].status = ACTIVE => total <= challenges[id].target
                /\ challenges[id].status = COMPLETED =>
                        now >= challenges[id].endDate /\ total <= challenges[id].target

\* C16: a SPENDING_LIMIT challenge with a category, whose user has no
\* expense in that category since startDate, has currentAmount 0 and is not
\* FAILED: expenses in other categories do not count, on either path.
C16_OtherCategoriesIgnored ==
    \A id \in ChIds :
        /\ challenges[id].type = SPENDING_LIMIT
        /\ challenges[id].category # NoCat
        /\ ~HasBannedExpense(challenges[id])
        => challenges[id].amt = 0 /\ challenges[id].status # FAILED

\* C17: before endDate a CATEGORY_BAN challenge is FAILED only if its user
\* has an expense in the banned category since startDate (no evaluation
\* fails it without one, also within the first day after startDate).
C17_BanFailsOnlyOnBannedExpense ==
    \A id \in ChIds :
        /\ challenges[id].type = CATEGORY_BAN
        /\ now < challenges[id].endDate
        /\ challenges[id].status = FAILED
        => HasBannedExpense(challenges[id])

\* C18: no evaluation stores COMPLETED for a CATEGORY_BAN challenge or
\* issues its reward, whatever rules.streakDays is, also when it is absent.
C18_BanNeverCompleted ==
    \A id \in ChIds :
        challenges[id].type = CATEGORY_BAN =>
            challenges[id].status # COMPLETED /\ awards[id] = 0

\* C19: an evaluation of a STREAK challenge whose user has an expense in the
\* banned category since startDate stores currentStreak 0 and FAILED, on the
\* batch path as on the per-transaction path.
C19_StreakBrokenFails ==
    [][\A p \in Procs :
            LET r == proc[p]
                id == r.list[r.idx].id
            IN  /\ r.pc \in {"cp_eval", "up_eval"}
                /\ proc'[p] # r
                /\ challenges[id].type = STREAK
                /\ HasBannedExpense(challenges[id])
                => challenges'[id].status = FAILED /\ challenges'[id].streak = 0]_vars

\* C20: the currentAmount of a GOAL_CONTRIBUTION challenge is the balance of
\* its goal as some evaluation read it, so it never exceeds the present
\* balance (income transactions do not feed it), and the challenge is
\* COMPLETED only with a balance at or above the target.
C20_GoalProgressIsBalance ==
    \A id \in ChIds :
        challenges[id].type = GOAL_CONTRIBUTION /\ challenges[id].goalId \in GoalIds =>
            LET balance == goals[challenges[id].goalId].currentAmount
            IN  /\ challenges[id].amt <= balance
                /\ challenges[id].status = COMPLETED => balance >= challenges[id].target

\* Status and progress of every stored challenge stay as they are
EvaluationChangesNothing ==
    \A id \in ChIds :
        /\ challenges'[id].status = challenges[id].status
        /\ challenges'[id].amt = challenges[id].amt
        /\ challenges'[id].streak = challenges[id].streak

\* C21: evaluation is idempotent: a pass of updateChallengesWithNewData that
\* runs with no new activity since the last pass, at the same instant,
\* changes the stored status, currentAmount and currentStreak of no challenge.
C21_RepeatedPassChangesNothing ==
    [][\A p \in Procs : proc[p].by = "sweep" => EvaluationChangesNothing]_vars

\* The invocation is applying a transaction created before the start of the
\* challenge it is about to evaluate
AppliesEarlierTransaction(p) ==
    /\ proc[p].pc \in {"up_eval", "up_write"}
    /\ proc[p].txs[1].createdAt < challenges[proc[p].list[proc[p].idx].id].startDate

\* C22: a transaction created before a challenge's startDate never changes
\* that challenge's currentAmount, currentStreak or status when the reactive
\* path evaluates the challenge with it.
C22_EarlierTransactionIgnored ==
    [][\A p \in Procs :
          AppliesEarlierTransaction(p) =>
              LET id == proc[p].list[proc[p].idx].id
              IN  /\ challenges'[id].status = challenges[id].status
                  /\ challenges'[id].amt = challenges[id].amt
                  /\ challenges'[id].streak = challenges[id].streak]_vars

\* The rules of a challenge hold the field its type is evaluated with
RulesFitType(ch) ==
    /\ ch.type = STREAK => ch.streakDays # NoVal
    /\ ch.type = SAVINGS => ch.target # NoVal
    /\ ch.type = CATEGORY_BAN => ch.category # NoCat

\* C23: createChallenge persists nothing for a draft whose rules do not fit
\* its type, so every challenge in the store has the rule fields its type
\* needs (streakDays for STREAK, targetAmount for SAVINGS, category for
\* CATEGORY_BAN).
C23_StoredRulesFitType == \A id \in ChIds : RulesFitType(challenges[id])

\* The challenges of user u in the store with status st
StoredWith(u, st) == {id \in ChIds : challenges[id].userId = u /\ challenges[id].status = st}

RECURSIVE RewardsOf(_)
\* The sum of rewardPoints over a set of challenge ids
RewardsOf(ids) ==
    IF ids = {} THEN 0
    ELSE LET id == CHOOSE i \in ids : TRUE
         IN  challenges[id].rewardPoints + RewardsOf(ids \ {id})

\* What the statistics st of user u hold apart from the success rate
CountsRight(st, u) ==
    /\ st.active = Cardinality(StoredWith(u, ACTIVE))
    /\ st.completed = Cardinality(StoredWith(u, COMPLETED))
    /\ st.failed = Cardinality(StoredWith(u, FAILED))
    /\ st.expired = Cardinality(StoredWith(u, EXPIRED))
    /\ st.total = st.active + st.completed + st.failed + st.expired
    /\ st.totalPointsEarned = RewardsOf(StoredWith(u, COMPLETED))

\* The success rate num / den equals scale * completed / (completed + failed),
\* and is 0 when nothing completed or failed
RateIs(st, scale) ==
    IF st.completed + st.failed = 0 THEN st.successRate.num = 0
    ELSE st.successRate.num * (st.completed + st.failed)
            = scale * st.completed * st.successRate.den

\* C24 as stated: getUserStats returns counts per status that sum to the
\* total, the rewardPoints of the COMPLETED challenges only, and a successRate
\* equal to completed / (completed + failed) (0 when that sum is 0), and
\* changes no stored state.
C24_StatsAsStated ==
    [][\A u \in Users :
          getStats("p1", u) =>
              /\ UNCHANGED <<challenges, transactions, goals, points, awards>>
              /\ CountsRight(proc'["p1"].stats, u)
              /\ RateIs(proc'["p1"].stats, 1)]_vars

\* C24 amended: as above with successRate equal to the percentage
\* 100 * completed / (completed + failed).
C24_StatsWithPercentage ==
    [][\A u \in Users :
          getStats("p1", u) =>
              /\ UNCHANGED <<challenges, transactions, goals, points, awards>>
              /\ CountsRight(proc'["p1"].stats, u)
              /\ RateIs(proc'["p1"].stats, 100)]_vars

\* Statistics were returned for a user with a completed, and an expired
\* challenge
C24_Witness ==
    /\ proc["p1"].pc = "respond"
    /\ proc["p1"].stats.completed = 1
    /\ proc["p1"].stats.expired = 1
    /\ proc["p1"].stats.successRate = [num |-> 100, den |-> 1]

\* C25: a step of an evaluation pass for one user leaves every challenge
\* record and the points balance of every other user unchanged, and no pass
\* removes a challenge record from the store.
C25_OtherUsersUntouched ==
    [][\A p \in Procs :
          (proc[p].pc # "idle" /\ proc'[p] # proc[p]) =>
              /\ Len(challenges') >= Len(challenges)
              /\ \A id \in ChIds :
                      challenges[id].userId # proc[p].user =>
                          challenges'[id] = challenges[id]
              /\ \A b \in Users \ {proc[p].user} : points'[b] = points[b]]_vars

\* The pass of u1 completed and rewarded u1's challenge while u2's challenge,
\* with an income of u2 on record, is still as created
C25_Witness ==
    /\ challenges[1].status = COMPLETED
    /\ points["u1"] > 0
    /\ challenges[2] = NewChallenge("u2", SavingsDraft, FALSE)
    /\ points["u2"] = 0
    /\ FindTransactions("u2") # <<>>

\* C26: the per-transaction path accounts for every recorded transaction
\* exactly once: between passes an ACTIVE spending_limit challenge holds as
\* currentAmount the sum of the magnitudes of the user's expenses since
\* startDate, whether they were recorded one by one, synchronised several at
\* a time before one trigger, or followed by a weekly sweep.
C26_EachTransactionOnce ==
    \A id \in ChIds :
        (AllIdle /\ challenges[id].type = SPENDING_LIMIT /\ challenges[id].status = ACTIVE) =>
            challenges[id].amt = SumMagnitude(InWindow(challenges[id], "expense"))

\* Invocation p is inside getActiveChallenges
InGetActive(r) == r.pc \in {"ga_find", "ga_expire"}

\* C27: when getActiveChallenges returns, every challenge in the returned
\* list is ACTIVE in the store: one whose endDate is before now has been
\* stored EXPIRED and is not in the list.
C27_ReturnsOnlyActive ==
    [][\A p \in Procs :
          (InGetActive(proc[p]) /\ ~InGetActive(proc'[p])) =>
              \A k \in 1..Len(proc'[p].list) :
                  challenges'[proc'[p].list[k].id].status = ACTIVE]_vars

\* The weekly sweep is in flight
Sweeping == proc["p2"].pc \in {"sweep_next", "sweep_wait"}

\* The weekly sweep has run to its end
SweepDone == proc["p2"].pc = "idle" /\ proc["p2"].by = "sweep"

\* The challenges of user u, in store order
ChallengesOf(store, u) == SelectSeq(store, LAMBDA c : c.userId = u)

\* C28: generateWeeklyChallengesForAllUsers terminates; when it has ended it
\* has run updateChallengesWithNewData exactly once for every user with a
\* transaction dated within the last 7 days, in the order of the users, also
\* when the run for another user threw (every run is counted as a success or
\* as an error); and no step of the sweep creates or modifies a challenge of
\* a user without recent activity.
C28_SweepVisitsEveryActiveUser ==
    /\ [][(Sweeping /\ SweepDone') =>
            /\ proc'["p2"].ran = SelectSeq(AllUsers, hasRecentActivity)
            /\ proc'["p2"].successCount + proc'["p2"].errorCount = Len(proc'["p2"].ran)]_vars
    /\ [][Sweeping =>
            \A u \in Users :
                ~hasRecentActivity(u) =>
                    ChallengesOf(challenges', u) = ChallengesOf(challenges, u)]_vars
    /\ (Sweeping ~> SweepDone)

\* The sweep has ended with the pass of u1 thrown and that of u2 run, while
\* u2's challenge was evaluated
C28_Witness ==
    /\ SweepDone
    /\ proc["p2"].ran = AllUsers
    /\ proc["p2"].errorCount = 1
    /\ proc["p2"].successCount = 1

\* C29: regeneration never raises a user's number of ACTIVE challenges above
\* 3: no insert of the regeneration step leaves the user with more than 3.
C29_TopUpStopsAtThree ==
    [][\A p \in Procs :
          proc[p].pc = "gen_ins" =>
              CountActive(challenges', proc[p].user) <= TargetActive]_vars

RECURSIVE SumLog(_, _, _)
\* The sum of the points of the records of user u and the given type in log s
SumLog(s, u, type) ==
    IF s = <<>> THEN 0
    ELSE (IF Head(s).userId = u /\ Head(s).type = type THEN Head(s).points ELSE 0)
            + SumLog(Tail(s), u, type)

\* C30: with no addPoints or subtractPoints call in flight, every user's
\* points equal totalEarned - totalSpent and equal the sum of the 'earn'
\* records minus the sum of the 'spend' records of points_transactions, and
\* are never negative; this also after calls that interleaved.
C30_LedgerConsistent ==
    AllIdle =>
        \A u \in Users :
            /\ points[u] = ledger.totalEarned[u] - ledger.totalSpent[u]
            /\ points[u] = SumLog(ledger.log, u, "earn") - SumLog(ledger.log, u, "spend")
            /\ points[u] >= 0

====
